---------------------------- MODULE Spec2Model ----------------------------
(***************************************************************************)
(* Model of src/src/app/page.tsx: the Home component's two fetch           *)
(* pipelines (paginated table, per-day chart) and the pure transformations *)
(* they apply to the fetched collection.                                   *)
(*                                                                         *)
(* Strings that the code compares lexically (ISO timestamps, date keys)    *)
(* are modelled as sequences of their zero-padded numeric fields:          *)
(* "2024-01-03" is <<2024, 1, 3>> and "2024-01-03T10:..." is               *)
(* <<2024, 1, 3, 10>>.  Character-wise comparison of two such strings is   *)
(* the lexicographic comparison of the field sequences, a proper prefix    *)
(* being the smaller string.                                               *)
(***************************************************************************)
EXTENDS Integers, Sequences, FiniteSets, TLC

VARIABLES
    tools,          \* useState<ToolRow[]>([])          rows shown in the table
    page,           \* useState(1)
    total,          \* useState(0)
    loading,        \* useState(true)
    rowsPerPage,    \* useState(10)
    chartRange,     \* useState(90)
    chartData,      \* useState([])                     buckets shown in the chart
    chartLoading,   \* useState(false)
    chartError,     \* useState<string | null>(null)
    tableError,     \* useState<string | null>(null)
    tableFetches,   \* pending fetchData() calls, in issue order, each with its closure
    chartFetches,   \* pending fetchChartData() calls, in issue order, each with its closure
    lifecycle,      \* "rendered": first render committed, its effects not yet run;
                    \* "flushed": its effects have just run; "settled": later on
    data,           \* what GET /api/similar-tools answers with at this moment
    today           \* the calendar day `new Date()` falls on (a day number, see IsoDate)

vars == <<tools, page, total, loading, rowsPerPage, chartRange, chartData,
          chartLoading, chartError, tableError, tableFetches, chartFetches,
          lifecycle, data, today>>

tableVars == <<tools, page, total, loading, rowsPerPage, tableError, tableFetches>>
chartVars == <<chartRange, chartData, chartLoading, chartError, chartFetches>>

(***************************************************************************)
(* Bounds of the model.                                                    *)
(***************************************************************************)
MaxInFlight == 2
    \* at most this many unresolved fetches per pipeline
MaxRowsChoice == 2
    \* the user picks among the first MaxRowsChoice entries of ROWS_OPTIONS
BigCatalog == 12
    \* size of the larger collection the endpoint may answer with in Spec
MaxLen == 31
    \* longest collection paginated in SpecPaginate
MaxRecords == 3
    \* longest collection aggregated in SpecAggregate

(***************************************************************************)
(* Program constants.                                                      *)
(***************************************************************************)
NULL == "null"

ROWS_OPTIONS == <<10, 20, 30, 40, 50>>

TIME_RANGES == <<90, 30, 7>>

InitialPage == 1
InitialRowsPerPage == 10
InitialChartRange == 90

Min(a, b) == IF a < b THEN a ELSE b
Max(a, b) == IF a > b THEN a ELSE b

(***************************************************************************)
(* Calendar.  Day number 0 is 2023-10-01; the table covers 2023-10-01 to   *)
(* 2024-02-29, enough for a 90-day window that crosses a year boundary.    *)
(***************************************************************************)
Months == << [y |-> 2023, m |-> 10, len |-> 31],
             [y |-> 2023, m |-> 11, len |-> 30],
             [y |-> 2023, m |-> 12, len |-> 31],
             [y |-> 2024, m |-> 1,  len |-> 31],
             [y |-> 2024, m |-> 2,  len |-> 29] >>

RECURSIVE DateAt(_, _)
DateAt(n, k) ==
    IF n < Months[k].len
    THEN <<Months[k].y, Months[k].m, n + 1>>
    ELSE DateAt(n - Months[k].len, k + 1)

\* date.toISOString().split('T')[0] of the instant on day number n: "YYYY-MM-DD"
IsoDate(n) == DateAt(n, 1)

\* a < b, a <= b on strings, compared field by field; a proper prefix is smaller
RECURSIVE StrLess(_, _)
StrLess(a, b) ==
    IF b = <<>> THEN FALSE
    ELSE IF a = <<>> THEN TRUE
    ELSE IF Head(a) # Head(b) THEN Head(a) < Head(b)
    ELSE StrLess(Tail(a), Tail(b))

StrGE(a, b) == ~StrLess(a, b)

\* created_at.split('T')[0]: the date-only prefix of a timestamp
DatePrefix(s) == SubSeq(s, 1, Min(3, Len(s)))


(***************************************************************************)
(* The pure transformations.                                               *)
(***************************************************************************)
\* Array.prototype.slice(from, to) for 0 <= from <= to: clamps to the length
Slice(arr, from, to) ==
    IF from >= Min(to, Len(arr)) THEN <<>>
    ELSE SubSeq(arr, from + 1, Min(to, Len(arr)))

\* Paginate with the page index taken as 0-based: from = page * rowsPerPage
PaginateFromPage(arr, p, size) ==
    LET from == p * size
        to   == from + size
    IN  Slice(arr, from, to)

\* const from = (page - 1) * rowsPerPage; const to = from + rowsPerPage;
\* const paginated = data.slice(from, to);
Paginate(arr, p, size) ==
    LET from == (p - 1) * size
        to   == from + size
    IN  Slice(arr, from, to)

\* Math.ceil(a / b) for a >= 0, b > 0
Ceil(a, b) == (a + b - 1) \div b

\* TotalPages without the `|| 1`
TotalPagesNoFloor(n, size) == Ceil(n, size)

\* const totalPages = Math.ceil(total / rowsPerPage) || 1;
TotalPages(n, size) ==
    IF Ceil(n, size) = 0 THEN 1 ELSE Ceil(n, size)

\* since = new Date(); since.setDate(since.getDate() - chartRange);
\* sinceStr = since.toISOString().split('T')[0]
\* `now` is the day toISOString() puts the present instant on; setDate moves the
\* instant back by `range` whole days (no daylight-saving change in between).
SinceStr(now, range) == IsoDate(now - range)

\* Filtered with the filter left out
Unfiltered(arr, sinceStr) == arr

\* data.filter(tool => tool.created_at >= sinceStr)
Filtered(arr, sinceStr) ==
    SelectSeq(arr, LAMBDA tool : StrGE(tool.created_at, sinceStr))

\* AddDate with dateCounts[date] = 1 in place of the increment
AddDateNoIncrement(counts, date) ==
    IF \E i \in DOMAIN counts : counts[i].date = date
    THEN counts
    ELSE Append(counts, [date |-> date, count |-> 1])

\* dateCounts[date] = (dateCounts[date] || 0) + 1, the keys kept in insertion order
AddDate(counts, date) ==
    IF \E i \in DOMAIN counts : counts[i].date = date
    THEN [i \in DOMAIN counts |->
            IF counts[i].date = date
            THEN [date |-> date, count |-> counts[i].count + 1]
            ELSE counts[i]]
    ELSE Append(counts, [date |-> date, count |-> 1])

\* filtered.forEach(tool => { const date = tool.created_at.split('T')[0]; ... })
RECURSIVE DateCounts(_, _)
DateCounts(arr, counts) ==
    IF arr = <<>> THEN counts
    ELSE DateCounts(Tail(arr), AddDate(counts, DatePrefix(Head(arr).created_at)))

\* one step of the sort: entry e put into the sorted sequence s
RECURSIVE Insert(_, _)
Insert(e, s) ==
    IF s = <<>> THEN <<e>>
    ELSE IF StrLess(e.date, Head(s).date) THEN <<e>> \o s
    ELSE <<Head(s)>> \o Insert(e, Tail(s))

\* SortByDate with the sort left out: the entries in insertion order
Unsorted(entries) == entries

\* Object.entries(dateCounts).sort(([a], [b]) => a.localeCompare(b))
RECURSIVE SortByDate(_)
SortByDate(entries) ==
    IF entries = <<>> THEN <<>>
    ELSE Insert(Head(entries), SortByDate(Tail(entries)))

\* the body of fetchChartData's try block after the fetch: chartArr
Aggregate(arr, range, now) ==
    SortByDate(DateCounts(Filtered(arr, SinceStr(now, range)), <<>>))

(***************************************************************************)
(* The endpoint's answers and failures.                                    *)
(***************************************************************************)
Today0 == 101
    \* 2024-01-10

\* the i-th record of the catalog: records are not ordered by date
CatalogAge(i) == <<20, 3, 60>>[(i % 3) + 1]

ToolRow(i, created) == [id |-> i, created_at |-> created]

Catalog(n) ==
    [i \in 1..n |-> ToolRow(i, Append(IsoDate(Today0 - CatalogAge(i)), i % 24))]

\* what the endpoint may hold in Spec
Collections == {Catalog(0), Catalog(BigCatalog)}

\* the message of what fetch() or res.json() throws: a network TypeError or a
\* SyntaxError of the body (both carry a message, one stands for them), or an
\* error whose message is empty
ExceptionMessages == {"Failed to fetch", ""}

\* throw new Error('Failed to fetch tools') on !res.ok, or an exception
TableThrown == {"Failed to fetch tools"} \cup ExceptionMessages

\* throw new Error('Failed to fetch tools for chart') on !res.ok, or an exception
ChartThrown == {"Failed to fetch tools for chart"} \cup ExceptionMessages

\* TableErrorMessage without the fallback: err.message alone
TableErrorMessageNoFallback(msg) == msg

\* err.message || 'Error loading tools'
TableErrorMessage(msg) == IF msg = "" THEN "Error loading tools" ELSE msg

\* err.message || 'Error loading chart data'
ChartErrorMessage(msg) == IF msg = "" THEN "Error loading chart data" ELSE msg

RemoveAt(s, i) == SubSeq(s, 1, i - 1) \o SubSeq(s, i + 1, Len(s))


(***************************************************************************)
(* The component.  Init is the first committed render: every useState      *)
(* holds its initial value and no effect has run yet.                      *)
(***************************************************************************)
TableFetch(p, size) == [page |-> p, rowsPerPage |-> size]
ChartFetch(range)   == [chartRange |-> range]

Init ==
    /\ tools = <<>>
    /\ page = InitialPage
    /\ total = 0
    /\ loading = TRUE
    /\ rowsPerPage = InitialRowsPerPage
    /\ chartRange = InitialChartRange
    /\ chartData = <<>>
    /\ chartLoading = FALSE
    /\ chartError = NULL
    /\ tableError = NULL
    /\ tableFetches = <<>>
    /\ chartFetches = <<>>
    /\ lifecycle = "rendered"
    /\ data \in Collections
    /\ today = Today0

\* the table effect: setLoading(true); setTableError(null); fetchData()
\* with page and rowsPerPage as the render that scheduled it saw them
TableEffect(p, size) ==
    /\ Len(tableFetches) < MaxInFlight
    /\ loading' = TRUE
    /\ tableError' = NULL
    /\ tableFetches' = Append(tableFetches, TableFetch(p, size))

\* the chart effect: setChartLoading(true); setChartError(null); fetchChartData()
ChartEffect(range) ==
    /\ Len(chartFetches) < MaxInFlight
    /\ chartLoading' = TRUE
    /\ chartError' = NULL
    /\ chartFetches' = Append(chartFetches, ChartFetch(range))

\* The effects of the first render run, both of them, each with the initial
\* values of its dependencies.
Mount ==
    /\ lifecycle = "rendered"
    /\ TableEffect(page, rowsPerPage)
    /\ ChartEffect(chartRange)
    /\ lifecycle' = "flushed"
    /\ UNCHANGED <<tools, page, total, rowsPerPage, chartRange, chartData, data, today>>

\* A handler may run once the first effects have run.  React runs the pending
\* effects of a render before it renders the update a handler queued, so a
\* click the browser dispatched on the first render's output (where
\* chartLoading is still false) is handled in lifecycle "flushed".
Handling == lifecycle # "rendered"

\* a render in which page or rowsPerPage changed: the table effect runs again
TableChange(p, size) ==
    /\ Handling
    /\ <<p, size>> # <<page, rowsPerPage>>
    /\ page' = p
    /\ rowsPerPage' = size
    /\ TableEffect(p, size)
    /\ lifecycle' = "settled"
    /\ UNCHANGED <<tools, total, chartVars, data, today>>

\* SetRowsPerPage without the setPage(1)
SetRowsPerPageKeepPage(val) == TableChange(page, val)

\* onValueChange={val => { setRowsPerPage(Number(val)); setPage(1); }}
\* The two updates are batched into one render.
SetRowsPerPage(val) == TableChange(1, val)

\* the derived totalPages of the current render
totalPages == TotalPages(total, rowsPerPage)

\* onClick={() => setPage(1)} disabled={page === 1}
FirstPage ==
    /\ page # 1
    /\ TableChange(1, rowsPerPage)

\* onClick={() => setPage(p => Math.max(1, p - 1))} disabled={page === 1}
PrevPage ==
    /\ page # 1
    /\ TableChange(Max(1, page - 1), rowsPerPage)

\* onClick={() => setPage(p => Math.min(totalPages, p + 1))}
\* disabled={page === totalPages || totalPages === 0}
NextPage ==
    /\ ~(page = totalPages \/ totalPages = 0)
    /\ TableChange(Min(totalPages, page + 1), rowsPerPage)

\* onClick={() => setPage(totalPages)} disabled={page === totalPages || totalPages === 0}
LastPage ==
    /\ ~(page = totalPages \/ totalPages = 0)
    /\ TableChange(totalPages, rowsPerPage)

\* the range buttons are rendered: {!chartLoading && !chartError && ( ... )}
RangeButtonsShown ==
    \/ lifecycle = "flushed"
    \/ (~chartLoading /\ chartError = NULL)

\* onClick={() => setChartRange(range.value)}; the chart effect runs again
SetChartRange(range) ==
    /\ Handling
    /\ RangeButtonsShown
    /\ range # chartRange
    /\ chartRange' = range
    /\ ChartEffect(range)
    /\ lifecycle' = "settled"
    /\ UNCHANGED <<chartData, tableVars, data, today>>

\* TableResolve without the finally block's setLoading(false)
TableResolveNoFinally(i) ==
    /\ i \in DOMAIN tableFetches
    /\ tools' = Paginate(data, tableFetches[i].page, tableFetches[i].rowsPerPage)
    /\ total' = Len(data)
    /\ tableFetches' = RemoveAt(tableFetches, i)
    /\ lifecycle' = "settled"
    /\ UNCHANGED <<page, rowsPerPage, loading, tableError, chartVars, data, today>>

\* fetchData's try block runs to its end for the i-th pending call
TableResolve(i) ==
    /\ i \in DOMAIN tableFetches
    /\ tools' = Paginate(data, tableFetches[i].page, tableFetches[i].rowsPerPage)
    /\ total' = Len(data)
    /\ loading' = FALSE
    /\ tableFetches' = RemoveAt(tableFetches, i)
    /\ lifecycle' = "settled"
    /\ UNCHANGED <<page, rowsPerPage, tableError, chartVars, data, today>>

\* TableReject with one error state shared by the two pipelines
TableRejectSharedError(i, msg) ==
    /\ i \in DOMAIN tableFetches
    /\ tableError' = TableErrorMessage(msg)
    /\ chartError' = TableErrorMessage(msg)
    /\ tools' = <<>>
    /\ total' = 0
    /\ loading' = FALSE
    /\ tableFetches' = RemoveAt(tableFetches, i)
    /\ lifecycle' = "settled"
    /\ UNCHANGED <<page, rowsPerPage, chartRange, chartData, chartLoading,
                   chartFetches, data, today>>

\* fetchData's catch block: the i-th pending call threw an error with message msg
TableReject(i, msg) ==
    /\ i \in DOMAIN tableFetches
    /\ tableError' = TableErrorMessage(msg)
    /\ tools' = <<>>
    /\ total' = 0
    /\ loading' = FALSE
    /\ tableFetches' = RemoveAt(tableFetches, i)
    /\ lifecycle' = "settled"
    /\ UNCHANGED <<page, rowsPerPage, chartVars, data, today>>

\* fetchChartData's try block runs to its end for the i-th pending call
ChartResolve(i) ==
    /\ i \in DOMAIN chartFetches
    /\ chartData' = Aggregate(data, chartFetches[i].chartRange, today)
    /\ chartLoading' = FALSE
    /\ chartFetches' = RemoveAt(chartFetches, i)
    /\ lifecycle' = "settled"
    /\ UNCHANGED <<chartRange, chartError, tableVars, data, today>>

\* fetchChartData's catch block
ChartReject(i, msg) ==
    /\ i \in DOMAIN chartFetches
    /\ chartError' = ChartErrorMessage(msg)
    /\ chartData' = <<>>
    /\ chartLoading' = FALSE
    /\ chartFetches' = RemoveAt(chartFetches, i)
    /\ lifecycle' = "settled"
    /\ UNCHANGED <<chartRange, tableVars, data, today>>

\* the endpoint's collection changes between two requests (Init already draws
\* any collection, and only the Resolve steps read it)
ServerUpdate ==
    /\ lifecycle = "settled"
    /\ data' \in Collections \ {data}
    /\ UNCHANGED <<tableVars, chartVars, lifecycle, today>>

RowsChoices == {ROWS_OPTIONS[k] : k \in 1..Min(MaxRowsChoice, Len(ROWS_OPTIONS))}
RangeChoices == {TIME_RANGES[k] : k \in DOMAIN TIME_RANGES}

Next ==
    \/ Mount
    \/ \E val \in RowsChoices : SetRowsPerPage(val)
    \/ FirstPage
    \/ PrevPage
    \/ NextPage
    \/ LastPage
    \/ \E range \in RangeChoices : SetChartRange(range)
    \/ \E i \in 1..MaxInFlight : TableResolve(i)
    \/ \E i \in 1..MaxInFlight, msg \in TableThrown : TableReject(i, msg)
    \/ \E i \in 1..MaxInFlight : ChartResolve(i)
    \/ \E i \in 1..MaxInFlight, msg \in ChartThrown : ChartReject(i, msg)
    \/ ServerUpdate

Spec == Init /\ [][Next]_vars


(***************************************************************************)
(* SpecPaginate: the table pipeline alone, for every collection of up to   *)
(* MaxLen records and every rows-per-page option.  The user has chosen the *)
(* page size, the fetch for page 1 is pending, and the user then walks     *)
(* through the pages, waiting for each one to load.                        *)
(***************************************************************************)
RowsOptions == {ROWS_OPTIONS[k] : k \in DOMAIN ROWS_OPTIONS}

InitPaginate ==
    /\ data \in {Catalog(n) : n \in 0..MaxLen}
    /\ rowsPerPage \in RowsOptions
    /\ page = 1
    /\ tools = <<>>
    /\ total = 0
    /\ loading = TRUE
    /\ tableError = NULL
    /\ tableFetches = <<TableFetch(page, rowsPerPage)>>
    /\ chartRange = InitialChartRange
    /\ chartData = <<>>
    /\ chartLoading = FALSE
    /\ chartError = NULL
    /\ chartFetches = <<>>
    /\ lifecycle = "settled"
    /\ today = Today0

NextPaginate ==
    \/ TableResolve(1)
    \/ (tableFetches = <<>> /\ NextPage)

SpecPaginate == InitPaginate /\ [][NextPaginate]_vars

(***************************************************************************)
(* SpecAggregate: one run of the chart pipeline, for every range and every *)
(* collection of up to MaxRecords records dated around the window's two    *)
(* ends, in any order, with or without a time part.                        *)
(***************************************************************************)
\* the days a record of SpecAggregate may be dated: just before the window,
\* its first day, yesterday, today, tomorrow
RecordDays(now, range) == {now - range - 1, now - range, now - 1, now, now + 1}

Timestamps(now, range) ==
    {IsoDate(d) : d \in RecordDays(now, range)}
        \cup {Append(IsoDate(d), 10) : d \in RecordDays(now, range)}

AggCollections(now, range) ==
    UNION {[1..n -> Timestamps(now, range)] : n \in 0..MaxRecords}

InitAggregate ==
    /\ today = Today0
    /\ chartRange \in RangeChoices
    /\ \E stamps \in AggCollections(today, chartRange) :
          data = [i \in DOMAIN stamps |-> ToolRow(i, stamps[i])]
    /\ chartData = <<>>
    /\ chartLoading = TRUE
    /\ chartError = NULL
    /\ chartFetches = <<ChartFetch(chartRange)>>
    /\ tools = <<>>
    /\ page = InitialPage
    /\ total = 0
    /\ loading = FALSE
    /\ rowsPerPage = InitialRowsPerPage
    /\ tableError = NULL
    /\ tableFetches = <<>>
    /\ lifecycle = "settled"

NextAggregate == ChartResolve(1)

SpecAggregate == InitAggregate /\ [][NextAggregate]_vars


(***************************************************************************)
(* Vocabulary of the properties.                                           *)
(***************************************************************************)
LastDay == 31 + 30 + 31 + 31 + 29 - 1

\* the day number a date key stands for
DayNumber(date) == CHOOSE n \in 0..LastDay : IsoDate(n) = date

\* the calendar day a record was created on
CreatedDay(tool) == DayNumber(DatePrefix(tool.created_at))

RECURSIVE SumCounts(_)
SumCounts(buckets) ==
    IF buckets = <<>> THEN 0 ELSE Head(buckets).count + SumCounts(Tail(buckets))

\* the pages 1..k of a collection, one after the other
RECURSIVE ConcatPages(_, _, _)
ConcatPages(arr, size, k) ==
    IF k = 0 THEN <<>>
    ELSE ConcatPages(arr, size, k - 1) \o Paginate(arr, k, size)

TableSettled == lifecycle # "rendered" /\ tableFetches = <<>>
ChartSettled == lifecycle # "rendered" /\ chartFetches = <<>>

(***************************************************************************)
(* C4 (SpecPaginate).  Pagination totality: whatever the collection and    *)
(* the page size, the page shown once its fetch has resolved holds exactly *)
(* the records at positions (page-1)*pageSize+1 .. of the collection, in   *)
(* order; it has at most pageSize records, exactly pageSize unless it is   *)
(* the last page, and the last page ends where the collection ends; so the *)
(* pages 1..totalPages, concatenated, are the collection.                  *)
(***************************************************************************)
PaginationTotality ==
    TableSettled =>
        /\ total = Len(data)
        /\ page \in 1..totalPages
        /\ Len(tools) <= rowsPerPage
        /\ (page < totalPages => Len(tools) = rowsPerPage)
        /\ \A j \in 1..Len(tools) : tools[j] = data[(page - 1) * rowsPerPage + j]
        /\ (page = totalPages => (page - 1) * rowsPerPage + Len(tools) = Len(data))
        /\ ConcatPages(data, rowsPerPage, totalPages) = data

\* 25 records, pageSize 10, page 3: 5 records, totalPages 3
PaginationTotalityWitness ==
    /\ TableSettled
    /\ Len(data) = 25
    /\ rowsPerPage = 10
    /\ page = 3
    /\ totalPages = 3
    /\ Len(tools) = 5

BucketsAscending ==
    ChartSettled =>
        /\ \A i, j \in DOMAIN chartData :
              i < j => DayNumber(chartData[i].date) < DayNumber(chartData[j].date)
        /\ \A i \in DOMAIN chartData :
              /\ chartData[i].count >= 1
              /\ \E k \in DOMAIN data :
                    /\ CreatedDay(data[k]) = DayNumber(chartData[i].date)
                    /\ CreatedDay(data[k]) >= today - chartRange

\* three buckets out of a collection that came newest first
BucketsAscendingWitness ==
    /\ ChartSettled
    /\ Len(chartData) = 3
    /\ Len(data) = 3
    /\ CreatedDay(data[1]) > CreatedDay(data[2])
    /\ CreatedDay(data[2]) > CreatedDay(data[3])


(***************************************************************************)
(* C1 (Spec), as claimed.  Table stale-response guard: whenever no table   *)
(* fetch is pending and no error is shown, the rows and the total shown    *)
(* are the slice and the length of the endpoint's collection for the       *)
(* current page and page size, also when an earlier fetch resolved after a *)
(* later one.                                                              *)
(***************************************************************************)
TableShowsCurrentPage ==
    (TableSettled /\ tableError = NULL) =>
        \E d \in Collections :
            /\ tools = Paginate(d, page, rowsPerPage)
            /\ total = Len(d)

(***************************************************************************)
(* C2 (Spec), as claimed.  Chart stale-response guard: whenever no chart   *)
(* fetch is pending and no error is shown, the series shown is the one     *)
(* computed for the current range, also when the response for an earlier   *)
(* range (90) arrived after the response for the later one (7).            *)
(***************************************************************************)
ChartShowsCurrentRange ==
    (ChartSettled /\ chartError = NULL) =>
        \E d \in Collections : chartData = Aggregate(d, chartRange, today)

(***************************************************************************)
(* C3 (Spec), as claimed.  Ready or Failed, never both: no pipeline holds  *)
(* an error message together with a non-empty derived view.                *)
(***************************************************************************)
NeverErrorAndView ==
    /\ ~(tableError # NULL /\ (tools # <<>> \/ total # 0))
    /\ ~(chartError # NULL /\ chartData # <<>>)

(***************************************************************************)
(* C5 (Spec).  Pagination floor: totalPages >= 1 in every reachable state. *)
(***************************************************************************)
TotalPagesAtLeastOne == totalPages >= 1

\* the table after a failed fetch of a later page: total is back to 0
TotalPagesAtLeastOneWitness ==
    /\ TableSettled
    /\ tableError # NULL
    /\ total = 0
    /\ page = 2
    /\ totalPages = 1

(***************************************************************************)
(* C9 (Spec).  Every step that changes rowsPerPage leaves page at 1 and    *)
(* issues exactly one table fetch, whose closure holds page 1 and the new  *)
(* rowsPerPage.                                                            *)
(***************************************************************************)
RowsChangeResetsPage ==
    [][rowsPerPage' # rowsPerPage =>
          /\ page' = 1
          /\ tableFetches' = Append(tableFetches, TableFetch(1, rowsPerPage'))]_vars

\* the page size was changed to 20 on page 2 of size 10: the fetch for
\* (page 2, size 10) is still pending, the one issued after it is (page 1, size 20)
RowsChangeResetsPageWitness ==
    /\ page = 1
    /\ rowsPerPage = 20
    /\ tableFetches = <<TableFetch(2, 10), TableFetch(1, 20)>>

(***************************************************************************)
(* C10 (Spec).  Fetch failure handling: the step in which a pending fetch  *)
(* fails, whatever was thrown, leaves its pipeline with a non-empty error  *)
(* message, an empty derived view (tools = [] and total = 0, or            *)
(* chartData = []) and its loading flag cleared.                           *)
(***************************************************************************)
FailureEndsInFailed ==
    [][/\ (\E i \in DOMAIN tableFetches, msg \in TableThrown : TableReject(i, msg)) =>
            /\ tableError' \notin {NULL, ""}
            /\ tools' = <<>>
            /\ total' = 0
            /\ loading' = FALSE
       /\ (\E i \in DOMAIN chartFetches, msg \in ChartThrown : ChartReject(i, msg)) =>
            /\ chartError' \notin {NULL, ""}
            /\ chartData' = <<>>
            /\ chartLoading' = FALSE]_vars

\* both pipelines failed, the table's error carried no message
FailureEndsInFailedWitness ==
    /\ TableSettled
    /\ ChartSettled
    /\ tableError = "Error loading tools"
    /\ chartError = "Failed to fetch tools for chart"
    /\ tools = <<>>
    /\ total = 0
    /\ chartData = <<>>
    /\ ~loading
    /\ ~chartLoading


(***************************************************************************)
(* The steps of each pipeline, by who takes them.                          *)
(***************************************************************************)
\* the user changes a control of the table: rows per page or a page button
TableControl ==
    \/ \E val \in RowsChoices : SetRowsPerPage(val)
    \/ FirstPage
    \/ PrevPage
    \/ NextPage
    \/ LastPage

\* the user changes the control of the chart: a range button
ChartControl == \E range \in RangeChoices : SetChartRange(range)

\* a pending table fetch completes, one way or the other
TableComplete ==
    \E i \in DOMAIN tableFetches :
        (\E msg \in TableThrown : TableReject(i, msg)) \/ TableResolve(i)

\* a pending chart fetch completes, one way or the other
ChartComplete ==
    \E i \in DOMAIN chartFetches :
        (\E msg \in ChartThrown : ChartReject(i, msg)) \/ ChartResolve(i)

TableFailed == tableError # NULL
ChartFailed == chartError # NULL

(***************************************************************************)
(* C11 (Spec), as claimed.  Retries are manual: in every state where a     *)
(* pipeline is Failed (its error message is set) the user can change a     *)
(* control of that pipeline, which re-runs its fetch; Failed is not an     *)
(* absorbing state of either pipeline.                                     *)
(***************************************************************************)
RetryFromFailed ==
    /\ TableFailed => ENABLED TableControl
    /\ ChartFailed => ENABLED ChartControl


(***************************************************************************)
(* C12 (Spec).  Pipeline independence: every table step (a page or page    *)
(* size change, a table fetch succeeding or failing) leaves the chart      *)
(* state unchanged, and every chart step (a range change, a chart fetch    *)
(* succeeding or failing) leaves the table state unchanged.                *)
(***************************************************************************)
PipelinesIndependent ==
    [][/\ (TableControl \/ TableComplete) => UNCHANGED chartVars
       /\ (ChartControl \/ ChartComplete) => UNCHANGED tableVars]_vars

\* the table is Failed while the chart is Ready
PipelinesIndependentWitness ==
    /\ TableSettled
    /\ ChartSettled
    /\ TableFailed
    /\ ~loading
    /\ ~ChartFailed
    /\ ~chartLoading
    /\ chartData # <<>>


(***************************************************************************)
(* The score badge of a table row.  Scores are numbers with three decimal  *)
(* places, held in thousandths: 8 is 8000, 6.5 is 6500, 7.999 is 7999.     *)
(***************************************************************************)
MaxScore == 10000
    \* the highest score drawn in SpecScore, in thousandths

\* a score value: a number (in thousandths), null, or undefined
Number(n) == [type |-> "number", value |-> n]
NullScore == [type |-> "null", value |-> 0]
UndefinedScore == [type |-> "undefined", value |-> 0]

GreatFrom == 8000
    \* tool.score >= 8
PrettyGoodFrom == 6500
    \* tool.score >= 6.5

\* ScoreBand with `tool.score > 8` for the first tier
ScoreBandAboveEight(score) ==
    IF score = NullScore \/ score = UndefinedScore THEN "Not tried yet"
    ELSE IF score.value > GreatFrom THEN "Great!"
    ELSE IF score.value >= PrettyGoodFrom THEN "Pretty good"
    ELSE "meh.."

\* tool.score === null || tool.score === undefined ? ... : tool.score >= 8 ? ...
\*   : tool.score >= 6.5 ? ... : ...
ScoreBand(score) ==
    IF score = NullScore \/ score = UndefinedScore THEN "Not tried yet"
    ELSE IF score.value >= GreatFrom THEN "Great!"
    ELSE IF score.value >= PrettyGoodFrom THEN "Pretty good"
    ELSE "meh.."

\* tool.score of a row; a record without the field reads as undefined
ScoreOf(tool) == IF "score" \in DOMAIN tool THEN tool.score ELSE UndefinedScore

\* a record of the endpoint that carries a score
ScoredRow(i, created, score) == [id |-> i, created_at |-> created, score |-> score]

\* the rows are rendered: not loading, no error, tools not empty
RowsShown == ~loading /\ tableError = NULL /\ tools # <<>>

\* tools.map(tool => ... score badge ...)
Badges == [i \in DOMAIN tools |-> ScoreBand(ScoreOf(tools[i]))]

(***************************************************************************)
(* SpecScore: the table shows one record, for every score from 0 to        *)
(* MaxScore thousandths and for a score that is null or missing.           *)
(***************************************************************************)
Scores == {NullScore, UndefinedScore} \cup {Number(n) : n \in 0..MaxScore}

InitScore ==
    /\ \E score \in Scores :
          data = <<ScoredRow(1, Append(IsoDate(Today0), 10), score)>>
    /\ rowsPerPage = InitialRowsPerPage
    /\ page = InitialPage
    /\ tools = <<>>
    /\ total = 0
    /\ loading = TRUE
    /\ tableError = NULL
    /\ tableFetches = <<TableFetch(page, rowsPerPage)>>
    /\ chartRange = InitialChartRange
    /\ chartData = <<>>
    /\ chartLoading = FALSE
    /\ chartError = NULL
    /\ chartFetches = <<>>
    /\ lifecycle = "settled"
    /\ today = Today0

NextScore == TableResolve(1)

SpecScore == InitScore /\ [][NextScore]_vars

(***************************************************************************)
(* C13 (SpecScore).  Score banding: a row whose score is null or undefined *)
(* gets the not-yet-evaluated badge and no other row does; a score >= 8    *)
(* gets "great", 6.5 <= score < 8 "pretty good", score < 6.5 "meh"; every  *)
(* row gets exactly one of the four badges.                                *)
(***************************************************************************)
ScoreBanding ==
    RowsShown =>
        \A i \in DOMAIN tools :
            LET score == ScoreOf(tools[i])
                badge == Badges[i]
                absent == score.type \in {"null", "undefined"}
            IN  /\ badge \in {"Not tried yet", "Great!", "Pretty good", "meh.."}
                /\ (badge = "Not tried yet") <=> absent
                /\ ~absent =>
                      /\ (badge = "Great!") <=> (score.value >= 8000)
                      /\ (badge = "Pretty good") <=>
                            (score.value >= 6500 /\ score.value < 8000)
                      /\ (badge = "meh..") <=> (score.value < 6500)

\* 8.0 is shown as "great"
ScoreBandingWitness ==
    /\ RowsShown
    /\ ScoreOf(tools[1]) = Number(8000)
    /\ Badges[1] = "Great!"

(***************************************************************************)
(* C14 (Spec).  The page index is kept within [1, totalPages]: in every    *)
(* reachable state 1 <= page <= totalPages, with totalPages computed from  *)
(* the current total and page size.                                        *)
(***************************************************************************)
PageWithinTotalPages == 1 <= page /\ page <= totalPages

(***************************************************************************)
(* C15 (Spec).  A pipeline shows Loading for as long as any of its fetches *)
(* is in flight: while a table fetch is unresolved loading is true, while  *)
(* a chart fetch is unresolved chartLoading is true.                       *)
(***************************************************************************)
LoadingWhileInFlight ==
    /\ tableFetches # <<>> => loading
    /\ chartFetches # <<>> => chartLoading

(***************************************************************************)
(* C16 (Spec).  The range selector is offered only while the chart is      *)
(* neither loading nor failed, so in every state reachable through the UI  *)
(* at most one chart fetch is in flight.                                   *)
(***************************************************************************)
AtMostOneChartFetch == Len(chartFetches) <= 1

(***************************************************************************)
(* SpecLive: the component with the scheduling the runtime provides: the   *)
(* first render's effects run, and every issued fetch resolves or rejects. *)
(***************************************************************************)
SpecLive ==
    /\ Spec
    /\ WF_vars(Mount)
    /\ WF_vars(TableComplete)
    /\ WF_vars(ChartComplete)

\* the user changes a control
ControlChange == TableControl \/ ChartControl

(***************************************************************************)
(* C17 (SpecLive).  Once no fetch of a pipeline is in flight its loading   *)
(* flag is false, and a loading flag that is false becomes true only by a  *)
(* control change of its pipeline; if the user eventually stops changing   *)
(* controls, both pipelines eventually have no fetch in flight and are not *)
(* loading, for ever.                                                      *)
(***************************************************************************)
EventuallySettles ==
    /\ [](TableSettled => ~loading)
    /\ [](ChartSettled => ~chartLoading)
    /\ [][/\ (~loading /\ loading') => TableControl
          /\ (~chartLoading /\ chartLoading') => (ChartControl \/ Mount)]_vars
    /\ (<>[][~ControlChange]_vars) =>
          <>[](/\ TableSettled /\ ~loading
               /\ ChartSettled /\ ~chartLoading)

\* both pipelines have settled with the table Ready on a non-empty page
EventuallySettlesWitness ==
    /\ TableSettled /\ ~loading /\ ~TableFailed /\ tools # <<>>
    /\ ChartSettled /\ ~chartLoading

=============================================================================
